---- MODULE Spec2Model ----
(***************************************************************************)
(* Model of recognition/dataset.py: the transforms Rescale, ToTensor,      *)
(* Normalise and ClipAndRescale, the pipeline built by get_transform() and *)
(* its application to one sample by ISICDataset.__getitem__.               *)
(*                                                                         *)
(* Objects (PIL images, tensors) live in a heap, a sequence of records; a  *)
(* sample is a pair of heap references, as a Python dict holds references. *)
(* Tensor elements are exact extended rationals [n, d]: d > 0 is the       *)
(* fraction n/d in lowest terms, d = 0 is +inf (n = 1), -inf (n = -1) or   *)
(* NaN (n = 0), with the IEEE rules for division by zero.  Floating-point  *)
(* rounding is not modelled.                                               *)
(***************************************************************************)
EXTENDS Integers, Sequences, FiniteSets

VARIABLES heap, transforms, pc, i, sample, args, result, err, ran, calls

vars == <<heap, transforms, pc, i, sample, args, result, err, ran, calls>>

(* ------------------------------ bounds --------------------------------- *)

\* largest number of pixels (width * height) of an input image or tensor
MaxPixels == 4
\* largest width and height a Rescale is configured with
MaxOut == 2
\* largest step between consecutive elements of a generated image
MaxStride == 2
\* largest number of calls of one ClipAndRescale instance on one sample
MaxCalls == 2

(* ------------------------- program constants --------------------------- *)

\* bands of an image opened with convert('RGB')
NumChannels == 3
\* to_tensor divides 8-bit pixel values by 255
ByteMax == 255
\* Pillow's PRECISION_BITS (32 - 8 - 2) for 8-bit resampling coefficients
PrecisionBits == 22

DefaultClipRange == <<-5, 5>>
DefaultRescaleRange == <<0, 1>>

(* ---------------------- extended rational numbers ---------------------- *)

Abs(a) == IF a < 0 THEN -a ELSE a
Sgn(a) == IF a < 0 THEN -1 ELSE IF a > 0 THEN 1 ELSE 0

RECURSIVE Gcd(_, _)
Gcd(a, b) == IF b = 0 THEN a ELSE Gcd(b, a % b)

\* the number n/d, d >= 0, in canonical form
Norm(n, d) ==
    IF d = 0 THEN [n |-> Sgn(n), d |-> 0]
    ELSE LET g == Gcd(Abs(n), d) IN [n |-> n \div g, d |-> d \div g]

R(k) == [n |-> k, d |-> 1]
Zero == R(0)
NaN == [n |-> 0, d |-> 0]

IsNaN(a) == a.d = 0 /\ a.n = 0
IsFinite(a) == a.d > 0

RAdd(a, b) ==
    IF a.d = 0 /\ b.d = 0 THEN (IF a.n = b.n THEN a ELSE NaN)
    ELSE Norm(a.n * b.d + b.n * a.d, a.d * b.d)
RNeg(a) == [n |-> -a.n, d |-> a.d]
RSub(a, b) == RAdd(a, RNeg(b))
RMul(a, b) == Norm(a.n * b.n, a.d * b.d)
RDiv(a, b) ==
    LET s == IF b.n < 0 THEN -1 ELSE 1
    IN Norm(a.n * b.d * s, a.d * Abs(b.n))

\* comparisons are false when either side is NaN
\* two infinities compare by sign: cross-multiplying would give 0 <= 0
RLe(a, b) ==
    /\ ~IsNaN(a)
    /\ ~IsNaN(b)
    /\ IF a.d = 0 /\ b.d = 0 THEN a.n <= b.n ELSE a.n * b.d <= b.n * a.d
RLt(a, b) == a # b /\ RLe(a, b)
REq(a, b) == ~IsNaN(a) /\ ~IsNaN(b) /\ a = b

(* ------------------------------ the heap ------------------------------- *)

\* a PIL image: size = <<width, height>>, data row-major, bands interleaved
PILImage(mode, size, data) ==
    [kind |-> "PIL", mode |-> mode, size |-> size, data |-> data]

\* a tensor: data row-major over shape
Tensor(shape, data) == [kind |-> "Tensor", shape |-> shape, data |-> data]

Bands(mode) == IF mode = "RGB" THEN NumChannels ELSE 1

RECURSIVE Numel(_)
Numel(shape) == IF shape = <<>> THEN 1 ELSE Head(shape) * Numel(Tail(shape))

\* allocation appends; the new object's reference is Len(heap) + 1
Alloc(h, obj) == Append(h, obj)

NoSample == [image |-> 0, mask |-> 0]
Sample(image, mask) == [image |-> image, mask |-> mask]

\* what a transform's __call__ yields: the heap after it, and either the
\* sample it returns (err = "None") or the exception it raises
Returns(h, s) == [heap |-> h, sample |-> s, err |-> "None"]
Raises(h, e) == [heap |-> h, sample |-> NoSample, err |-> e]

(* ------------------- PIL: Image.resize (Pillow) ------------------------ *)

Max(a, b) == IF a >= b THEN a ELSE b
Min(a, b) == IF a <= b THEN a ELSE b

RECURSIVE SumTo(_, _)
\* f[0] + ... + f[n - 1]
SumTo(f, n) == IF n = 0 THEN 0 ELSE f[n - 1] + SumTo(f, n - 1)

\* Pillow's precompute_coeffs for the bilinear (triangle) filter, followed by
\* normalize_coeffs_8bpc: for output position xx the first input position
\* xmin, the number n of taps and the fixed-point coefficients kk[0..n-1].
\* All quantities are kept over the common denominators 2*outSize and 2*S.
Coeffs(inSize, outSize, xx) ==
    LET S == Max(inSize, outSize)          \* filterscale = S / outSize
        c2 == (2 * xx + 1) * inSize        \* center = c2 / (2 * outSize)
        lo == c2 - 2 * S + outSize         \* center - support + 0.5
        xmin == IF lo < 0 THEN 0 ELSE lo \div (2 * outSize)
        xmax == Min((c2 + 2 * S + outSize) \div (2 * outSize), inSize)
        n == xmax - xmin
        w == [k \in 0..(n - 1) |->
                Max(0, 2 * S - Abs(2 * outSize * (k + xmin) - c2 + outSize))]
        ww == SumTo(w, n)
    IN [xmin |-> xmin, n |-> n,
        kk |-> [k \in 0..(n - 1) |->
                  IF ww = 0 THEN 0
                  ELSE (2 * w[k] * (2 ^ PrecisionBits) + ww) \div (2 * ww)]]

clip8(v) ==
    LET q == v \div (2 ^ PrecisionBits)
    IN IF q < 0 THEN 0 ELSE IF q > ByteMax THEN ByteMax ELSE q

\* ImagingResampleHorizontal_8bpc: data of a w x h image -> wout x h
ResampleHorizontal(data, w, h, bands, wout) ==
    [q \in 1..(wout * h * bands) |->
        LET b == (q - 1) % bands
            x == ((q - 1) \div bands) % wout
            y == (q - 1) \div (bands * wout)
            c == Coeffs(w, wout, x)
            t == [k \in 0..(c.n - 1) |->
                    data[(y * w + c.xmin + k) * bands + b + 1] * c.kk[k]]
        IN clip8(2 ^ (PrecisionBits - 1) + SumTo(t, c.n))]

\* ImagingResampleVertical_8bpc: data of a w x h image -> w x hout
ResampleVertical(data, w, h, bands, hout) ==
    [q \in 1..(w * hout * bands) |->
        LET b == (q - 1) % bands
            x == ((q - 1) \div bands) % w
            y == (q - 1) \div (bands * w)
            c == Coeffs(h, hout, y)
            t == [k \in 0..(c.n - 1) |->
                    data[((c.xmin + k) * w + x) * bands + b + 1] * c.kk[k]]
        IN clip8(2 ^ (PrecisionBits - 1) + SumTo(t, c.n))]

\* ImagingResample: a horizontal pass when the width changes, then a
\* vertical pass when the height changes
ResizeBilinear(img, size) ==
    LET w == img.size[1]
        h == img.size[2]
        bands == Bands(img.mode)
        hor == IF size[1] # w
               THEN ResampleHorizontal(img.data, w, h, bands, size[1])
               ELSE img.data
        ver == IF size[2] # h
               THEN ResampleVertical(hor, size[1], h, bands, size[2])
               ELSE hor
    IN PILImage(img.mode, size, ver)

\* ImagingScaleAffine with the nearest filter: output pixel (x, y) copies the
\* input pixel at floor((x + 0.5) * w / wout), floor((y + 0.5) * h / hout)
ResizeNearest(img, size) ==
    LET w == img.size[1]
        h == img.size[2]
        bands == Bands(img.mode)
    IN PILImage(img.mode, size,
         [q \in 1..(size[1] * size[2] * bands) |->
            LET b == (q - 1) % bands
                x == ((q - 1) \div bands) % size[1]
                y == (q - 1) \div (bands * size[1])
                xin == ((2 * x + 1) * w) \div (2 * size[1])
                yin == ((2 * y + 1) * h) \div (2 * size[2])
            IN img.data[(yin * w + xin) * bands + b + 1]])

\* Image.resize(size, resample): a copy when the size is unchanged
resize(img, size, resample) ==
    IF img.size = size THEN img
    ELSE IF resample = "NEAREST" THEN ResizeNearest(img, size)
    ELSE ResizeBilinear(img, size)

(* ------------------------------ Rescale -------------------------------- *)

Rescale_init(output_size) ==
    [name |-> "Rescale", output_size |-> output_size]

Rescale_call(self, h, s) ==
    LET image == resize(h[s.image], self.output_size, "BILINEAR")
        mask == resize(h[s.mask], self.output_size, "NEAREST")
        h1 == Alloc(h, image)
        h2 == Alloc(h1, mask)
    IN Returns(h2, Sample(Len(h1), Len(h2)))

(* ------------------------------ ToTensor ------------------------------- *)

\* Tensor.squeeze(): drops every dimension of size 1
squeeze(t) == Tensor(SelectSeq(t.shape, LAMBDA n : n # 1), t.data)

\* transforms.functional.to_tensor on an 8-bit PIL image: HWC -> CHW, / 255
to_tensor(pic) ==
    LET w == pic.size[1]
        h == pic.size[2]
        bands == Bands(pic.mode)
    IN Tensor(<<bands, h, w>>,
         [q \in 1..(bands * h * w) |->
            LET x == (q - 1) % w
                y == ((q - 1) \div w) % h
                b == (q - 1) \div (w * h)
            IN RDiv(R(pic.data[(y * w + x) * bands + b + 1]), R(ByteMax))])

ToTensor_init == [name |-> "ToTensor"]

ToTensor_call(self, h, s) ==
    IF h[s.image].kind # "PIL" \/ h[s.mask].kind # "PIL"
    THEN Raises(h, "TypeError")
    ELSE LET image == to_tensor(h[s.image])
             mask == squeeze(to_tensor(h[s.mask]))
             h1 == Alloc(h, image)
             h2 == Alloc(h1, mask)
         IN Returns(h2, Sample(Len(h1), Len(h2)))

(* ------------------------------ Normalise ------------------------------ *)

\* stride of dimension k of a row-major shape
Stride(shape, k) == Numel(SubSeq(shape, k + 1, Len(shape)))

\* coordinate along dimension k of the flat (1-based) position q
Coord(shape, k, q) == ((q - 1) \div Stride(shape, k)) % shape[k]

\* numpy: image[0, boolmask] needs the mask's shape to equal the shape of
\* the axes of image it indexes, the ones after axis 0
BoolIndexFits(ishape, mshape) ==
    /\ Len(mshape) + 1 <= Len(ishape)
    /\ \A k \in 1..Len(mshape) : mshape[k] = ishape[k + 1]

RECURSIVE SumSeq(_)
SumSeq(xs) == IF xs = <<>> THEN Zero ELSE RAdd(Head(xs), SumSeq(Tail(xs)))

\* position in mask of the element that decides position p of image[0]
BoolIndexOf(plane, mshape, p) ==
    LET f == [k \in 1..Len(mshape) |-> Coord(plane, k, p) * Stride(mshape, k)]
    IN SumTo([k \in 0..(Len(mshape) - 1) |-> f[k + 1]], Len(mshape)) + 1

\* image.numpy()[0, mask.numpy() > 0]: the values of channel 0 at the
\* positions the mask selects, in row-major order
brain_pixels(image, mask) ==
    LET plane == Tail(image.shape)
        pos == SelectSeq([p \in 1..Numel(plane) |-> p],
                 LAMBDA p : RLt(Zero, mask.data[BoolIndexOf(plane, mask.shape, p)]))
    IN [j \in 1..Len(pos) |-> image.data[pos[j]]]

\* ndarray.mean(): NaN for an empty array
mean(xs) == RDiv(SumSeq(xs), R(Len(xs)))

\* the square of ndarray.std(), the population standard deviation; std is
\* its square root, so std = 0 exactly when variance = 0
variance(xs) ==
    LET m == mean(xs)
    IN mean([j \in 1..Len(xs) |-> RMul(RSub(xs[j], m), RSub(xs[j], m))])

Normalise_init == [name |-> "Normalise"]

\* Line 17 binds Normalised_image; line 18 reads normalised_image, a name
\* bound nowhere, so every call that gets past the indexing of line 13
\* raises NameError.  No statement tests for an empty selection or std = 0.
Normalise_call(self, h, s) ==
    LET image == h[s.image]
        mask == h[s.mask]
    IN IF image.kind # "Tensor" \/ mask.kind # "Tensor"
       THEN Raises(h, "AttributeError")
       ELSE IF ~BoolIndexFits(image.shape, mask.shape)
       THEN Raises(h, "IndexError")
       ELSE Raises(h, "NameError")

(* --------------------------- ClipAndRescale ---------------------------- *)

ClipAndRescale_init(clip_range, rescale_range) ==
    [name |-> "ClipAndRescale", clip_range |-> clip_range,
     rescale_range |-> rescale_range]

\* a clamp that applies the lower bound only
clamp_lower_only(v, lo, hi) ==
    IF IsNaN(v) THEN v ELSE IF RLt(v, lo) THEN lo ELSE v

\* torch.clamp on one element: min(max(v, lo), hi); NaN stays NaN
clamp(v, lo, hi) ==
    IF IsNaN(v) THEN v
    ELSE LET a == IF RLt(v, lo) THEN lo ELSE v
         IN IF RLt(hi, a) THEN hi ELSE a

\* torch.clamp_: the argument itself is overwritten and returned
torch_clamp_inplace(h, ref, lo, hi) ==
    LET t == h[ref]
        c == Tensor(t.shape,
               [q \in 1..Len(t.data) |-> clamp(t.data[q], R(lo), R(hi))])
    IN [heap |-> [h EXCEPT ![ref] = c], ref |-> ref]

\* torch.clamp(image, lo, hi): a new tensor, the argument is not written
torch_clamp(h, ref, lo, hi) ==
    LET t == h[ref]
        c == Tensor(t.shape,
               [q \in 1..Len(t.data) |-> clamp(t.data[q], R(lo), R(hi))])
    IN [heap |-> Alloc(h, c), ref |-> Len(h) + 1]

\* lines 35-37 without the final + min_val
rescale_no_offset(v, clip_range, rescale_range) ==
    LET min_val == rescale_range[1]
        max_val == rescale_range[2]
    IN RMul(RDiv(RSub(v, R(clip_range[1])),
                 R(clip_range[2] - clip_range[1])),
            R(max_val - min_val))

\* lines 35-37 on one element
rescale(v, clip_range, rescale_range) ==
    LET min_val == rescale_range[1]
        max_val == rescale_range[2]
    IN RAdd(RMul(RDiv(RSub(v, R(clip_range[1])),
                      R(clip_range[2] - clip_range[1])),
                 R(max_val - min_val)),
            R(min_val))

\* mask.unsqueeze(0).expand_as(image): every dimension of the unsqueezed
\* mask is 1 or the size of the image dimension it is aligned with
Expandable(mshape, ishape) ==
    LET u == <<1>> \o mshape
        off == Len(ishape) - Len(u)
    IN /\ off >= 0
       /\ \A k \in 1..Len(u) : u[k] = 1 \/ u[k] = ishape[k + off]

\* position in mask of the element expanded to position q of the image
ExpandIndexOf(mshape, ishape, q) ==
    LET off == Len(ishape) - Len(mshape)
        f == [k \in 1..Len(mshape) |->
                IF mshape[k] = 1 THEN 0
                ELSE Coord(ishape, k + off, q) * Stride(mshape, k)]
    IN SumTo([k \in 0..(Len(mshape) - 1) |-> f[k + 1]], Len(mshape)) + 1

\* zeroing with the mask applied to the first channel only
zero_background_first_channel(t, mask) ==
    Tensor(t.shape,
      [q \in 1..Len(t.data) |->
         IF q <= Len(mask.data) /\ REq(mask.data[q], Zero)
         THEN Zero ELSE t.data[q]])

\* rescaled_image[expanded_mask == 0] = 0, written into the tensor t
zero_background(t, mask) ==
    Tensor(t.shape,
      [q \in 1..Len(t.data) |->
         IF REq(mask.data[ExpandIndexOf(mask.shape, t.shape, q)], Zero)
         THEN Zero ELSE t.data[q]])

ClipAndRescale_call(self, h, s) ==
    LET c == torch_clamp(h, s.image, self.clip_range[1], self.clip_range[2])
        clipped_image == c.heap[c.ref]
        rescaled_image ==
            Tensor(clipped_image.shape,
              [q \in 1..Len(clipped_image.data) |->
                 rescale(clipped_image.data[q], self.clip_range,
                         self.rescale_range)])
        h2 == Alloc(c.heap, rescaled_image)
        r == Len(h2)
        mask == h2[s.mask]
    IN IF ~Expandable(mask.shape, rescaled_image.shape)
       THEN Raises(h2, "RuntimeError")
       ELSE Returns([h2 EXCEPT ![r] = zero_background(h2[r], mask)],
                    Sample(r, s.mask))

(* --------------------------- get_transform ----------------------------- *)

\* transforms.Compose([Rescale(size), ToTensor(), Normalise(),
\* ClipAndRescale()]); the source fixes size to (128, 128), the model draws
\* it from OutSizes
get_transform(output_size) ==
    <<Rescale_init(output_size), ToTensor_init, Normalise_init,
      ClipAndRescale_init(DefaultClipRange, DefaultRescaleRange)>>

\* t(sample) for a transform instance t
Apply(t, h, s) ==
    IF t.name = "Rescale" THEN Rescale_call(t, h, s)
    ELSE IF t.name = "ToTensor" THEN ToTensor_call(t, h, s)
    ELSE IF t.name = "Normalise" THEN Normalise_call(t, h, s)
    ELSE ClipAndRescale_call(t, h, s)

(* ------------------------------- inputs -------------------------------- *)

\* <<width, height>> of the images read from storage
InSizes == {sz \in (1..MaxPixels) \X (1..MaxPixels) : sz[1] * sz[2] <= MaxPixels}

\* sizes a Rescale is configured with
OutSizes == (1..MaxOut) \X (1..MaxOut)

\* 8-bit intensities of the generated colour images
PixelVals == <<0, 51, 102, 255>>

\* labels of the generated greyscale masks
MaskLabels == {0, 1, 255}

\* the sequence vals[offset+1], vals[offset+stride+1], ... of length n
Pattern(vals, n, offset, stride) ==
    [q \in 1..n |-> vals[(((q - 1) * stride + offset) % Len(vals)) + 1]]

\* element values of the tensors handed to ClipAndRescale directly
TensorVals == <<R(-10), R(-5), Norm(-5, 2), Zero, R(5), R(10)>>

\* mask values of the tensors handed to ClipAndRescale directly
TensorMaskVals == {Zero, R(1)}

\* ranges a ClipAndRescale is constructed with, malformed ones included:
\* __init__ stores whatever it is given
ClipRanges == {<<-5, 5>>, <<0, 5>>, <<5, 5>>, <<5, -5>>}
RescaleRanges == {<<0, 1>>, <<1, 3>>, <<-2, -1>>, <<1, 1>>, <<1, 0>>}

(* ---------------- the pipeline applied by __getitem__ ------------------ *)

\* ISICDataset.__getitem__ up to line 101: the RGB image and the greyscale
\* mask are open, the pipeline of get_transform() is about to be applied
Init ==
    /\ \E sz \in InSizes, off \in 0..(Len(PixelVals) - 1), st \in 0..1,
          out \in OutSizes :
         \E m \in [1..(sz[1] * sz[2]) -> MaskLabels] :
            /\ heap = <<PILImage("RGB", sz,
                          Pattern(PixelVals, sz[1] * sz[2] * NumChannels, off, st)),
                        PILImage("L", sz, m)>>
            /\ transforms = get_transform(out)
    /\ pc = "call"
    /\ i = 1
    /\ sample = Sample(1, 2)
    /\ args = <<>>
    /\ result = NoSample
    /\ err = "None"
    /\ ran = <<>>
    /\ calls = 0

\* one iteration of Compose.__call__ (for t in self.transforms:
\* img = t(img)); an exception leaves the loop, the last iteration returns
ComposeStep ==
    /\ pc = "call"
    /\ i <= Len(transforms)
    /\ \E r \in {Apply(transforms[i], heap, sample)} :
          /\ ran' = Append(ran, transforms[i].name)
          /\ args' = Append(args, sample)
          /\ heap' = r.heap
          /\ err' = r.err
          /\ IF r.err # "None"
             THEN /\ pc' = "raised"
                  /\ UNCHANGED <<i, sample, result>>
             ELSE /\ sample' = r.sample
                  /\ i' = i + 1
                  /\ IF i = Len(transforms)
                     THEN pc' = "returned" /\ result' = r.sample
                     ELSE pc' = "call" /\ UNCHANGED result
    /\ UNCHANGED <<transforms, calls>>

Next == ComposeStep

Spec == Init /\ [][Next]_vars

(* ---------------- ClipAndRescale constructed and called ---------------- *)

\* a tensor sample (image (3, H, W), mask (H, W)) and no instance yet
InitClip ==
    /\ \E sz \in InSizes, off \in 0..(Len(TensorVals) - 1), st \in 0..MaxStride :
         \E m \in [1..(sz[1] * sz[2]) -> TensorMaskVals] :
            heap = <<Tensor(<<NumChannels, sz[2], sz[1]>>,
                       Pattern(TensorVals, sz[1] * sz[2] * NumChannels, off, st)),
                     Tensor(<<sz[2], sz[1]>>, m)>>
    /\ transforms = <<>>
    /\ pc = "new"
    /\ i = 1
    /\ sample = Sample(1, 2)
    /\ args = <<>>
    /\ result = NoSample
    /\ err = "None"
    /\ ran = <<>>
    /\ calls = 0

\* ClipAndRescale.__init__
Construct ==
    /\ pc = "new"
    /\ \E cr \in ClipRanges, rr \in RescaleRanges :
         transforms' = <<ClipAndRescale_init(cr, rr)>>
    /\ pc' = "ready"
    /\ UNCHANGED <<heap, i, sample, args, result, err, ran, calls>>

\* ClipAndRescale.__call__ on the caller's sample; the caller keeps its
\* sample and may call again
ClipAndRescaleCall ==
    /\ pc = "ready"
    /\ calls < MaxCalls
    /\ \E r \in {ClipAndRescale_call(transforms[1], heap, sample)} :
          /\ heap' = r.heap
          /\ result' = r.sample
          /\ err' = r.err
    /\ calls' = calls + 1
    /\ args' = Append(args, sample)
    /\ ran' = Append(ran, "ClipAndRescale")
    /\ UNCHANGED <<transforms, pc, i, sample>>

NextClip == Construct \/ ClipAndRescaleCall

SpecClip == InitClip /\ [][NextClip]_vars

(* ------------------- state functions of the pipeline ------------------- *)

StageNames == <<"Rescale", "ToTensor", "Normalise", "ClipAndRescale">>

\* the k-th transform of the pipeline was called and returned
StageReturned(k) == Len(ran) >= k /\ i > k

\* the sample the k-th transform returned
StageOutput(k) == IF Len(args) > k THEN args[k + 1] ELSE sample

Finished == pc \in {"returned", "raised"}

\* the foreground selection of a tensor sample is non-empty and its
\* standard deviation is not 0
Valid(s) ==
    /\ BoolIndexFits(heap[s.image].shape, heap[s.mask].shape)
    /\ brain_pixels(heap[s.image], heap[s.mask]) # <<>>
    /\ variance(brain_pixels(heap[s.image], heap[s.mask])) # Zero

\* the foreground selection of a tensor sample is empty or constant
Degenerate(s) ==
    /\ BoolIndexFits(heap[s.image].shape, heap[s.mask].shape)
    /\ \/ brain_pixels(heap[s.image], heap[s.mask]) = <<>>
       \/ variance(brain_pixels(heap[s.image], heap[s.mask])) = Zero

\* C1: the pipeline calls Rescale, ToTensor, Normalise, ClipAndRescale once
\* each in that order, stops at the first stage that raises and propagates
\* its error, otherwise returns what ClipAndRescale returned; for a valid
\* sample it returns.
C1_PipelineReturnsForValid ==
    /\ ran = SubSeq(StageNames, 1, Len(ran))
    /\ pc = "raised" => err # "None" /\ i = Len(ran)
    /\ pc = "returned" => err = "None" /\ ran = StageNames /\ result = sample
    /\ (Finished /\ Len(ran) >= 3 /\ Valid(args[3])) => pc = "returned"

\* C4: Normalise given an empty or constant foreground fails with
\* DegenerateStatisticsError and returns no sample.
C4_DegenerateStatisticsError ==
    (Len(ran) >= 3 /\ Degenerate(args[3])) =>
        /\ pc = "raised"
        /\ i = 3
        /\ err = "DegenerateStatisticsError"

\* C5: Normalise given a valid sample returns (image - mean) / std in every
\* channel, mean and std taken over the foreground of channel 0, with the
\* input mask.  out = d / std is stated as out^2 * variance = d^2 with the
\* sign of d.
C5_ZScore ==
    (Len(ran) >= 3 /\ Valid(args[3])) =>
        /\ StageReturned(3)
        /\ LET in == heap[args[3].image]
               out == heap[StageOutput(3).image]
               bp == brain_pixels(in, heap[args[3].mask])
           IN /\ out.shape = in.shape
              /\ \A q \in 1..Len(in.data) :
                   LET d == RSub(in.data[q], mean(bp))
                       o == out.data[q]
                   IN /\ RMul(RMul(o, o), variance(bp)) = RMul(d, d)
                      /\ Sgn(o.n) = Sgn(d.n)
              /\ heap[StageOutput(3).mask] = heap[args[3].mask]

\* C6: after Rescale configured with (H, W) and ToTensor, the image has
\* shape (3, H, W) and the mask has shape (H, W).
C6_Shape ==
    StageReturned(2) =>
        LET H == transforms[1].output_size[1]
            W == transforms[1].output_size[2]
        IN /\ heap[StageOutput(2).image].shape = <<NumChannels, H, W>>
           /\ heap[StageOutput(2).mask].shape = <<H, W>>

\* C7: ToTensor keeps mask label values: every element of the mask it
\* returns equals the label of that pixel before the conversion (the mask is
\* not rescaled), so a label 1 is still 1.
C7_MaskLabelsKept ==
    StageReturned(2) =>
        LET pil == heap[args[2].mask]
            t == heap[StageOutput(2).mask]
        IN /\ Len(t.data) = Len(pil.data)
           /\ \A q \in 1..Len(pil.data) : t.data[q] = R(pil.data[q])

(* ---------------- state functions of the direct calls ------------------ *)

\* the instance under test and its configuration
self == transforms[1]
clip_min == self.clip_range[1]
clip_max == self.clip_range[2]
out_min == self.rescale_range[1]
out_max == self.rescale_range[2]

WellFormed == clip_min < clip_max /\ out_min < out_max

\* the last call returned
Called == pc = "ready" /\ calls > 0 /\ err = "None"

\* the caller's image and mask, and the image of the returned sample
InImage == heap[sample.image]
InMask == heap[sample.mask]
OutImage == heap[result.image]

\* positions of an image (C, H, W), and the mask element at (y, x) for the
\* image element at position q
Positions == 1..Len(InImage.data)
MaskAt(q) == InMask.data[((q - 1) % Len(InMask.data)) + 1]

InRange(v) == RLe(R(out_min), v) /\ RLe(v, R(out_max))

\* C2: in the sample ClipAndRescale returns, every image element whose mask
\* value is 0 is exactly 0, in every channel, for every configuration.
C2_BackgroundZero ==
    Called =>
        \A q \in Positions : MaskAt(q) = Zero => OutImage.data[q] = Zero

\* a call returned for a background position whose clipped and rescaled
\* value is not 0, in a channel other than the first
C2_Witness ==
    /\ Called
    /\ \E q \in Positions :
         /\ q > Len(InMask.data)
         /\ MaskAt(q) = Zero
         /\ rescale(clamp(InImage.data[q], R(clip_min), R(clip_max)),
                    self.clip_range, self.rescale_range) # Zero

\* C3 as stated: with clip_min < clip_max and out_min < out_max every
\* element of the returned image, foreground and background alike, lies in
\* [out_min, out_max].
C3_RangeAll ==
    (Called /\ WellFormed) => \A q \in Positions : InRange(OutImage.data[q])

\* C3, amended: with clip_min < clip_max and out_min < out_max an element of
\* the returned image lies in [out_min, out_max] exactly when its position
\* is foreground (mask # 0) or 0 itself lies in [out_min, out_max].
C3_RangeForeground ==
    (Called /\ WellFormed) =>
        \A q \in Positions :
            InRange(OutImage.data[q]) <=>
                (MaskAt(q) # Zero \/ (out_min <= 0 /\ 0 <= out_max))

\* a call returned with an output range that excludes 0, a background
\* position and a foreground value above clip_max
C3_Witness ==
    /\ Called
    /\ WellFormed
    /\ out_min > 0
    /\ \E q \in Positions : MaskAt(q) = Zero
    /\ \E q \in Positions :
         MaskAt(q) # Zero /\ RLt(R(clip_max), InImage.data[q])

\* C8: no ClipAndRescale instance has clip_min >= clip_max or
\* out_min >= out_max: construction with such a range fails.
C8_RangeValidated ==
    pc = "ready" => WellFormed

\* C9: at foreground positions the output is out_min + (clamp(v, clip_min,
\* clip_max) - clip_min) / (clip_max - clip_min) * (out_max - out_min):
\* v <= clip_min gives out_min, v >= clip_max gives out_max, and the output
\* does not decrease as v grows.  The affine law is stated cross-multiplied.
C9_ClipThenAffine ==
    (Called /\ WellFormed) =>
        \A q \in Positions :
            MaskAt(q) # Zero =>
                LET v == InImage.data[q]
                    o == OutImage.data[q]
                    cv == IF RLe(v, R(clip_min)) THEN R(clip_min)
                          ELSE IF RLe(R(clip_max), v) THEN R(clip_max) ELSE v
                IN /\ RMul(RSub(o, R(out_min)), R(clip_max - clip_min))
                        = RMul(RSub(cv, R(clip_min)), R(out_max - out_min))
                   /\ RLe(v, R(clip_min)) => o = R(out_min)
                   /\ RLe(R(clip_max), v) => o = R(out_max)
                   /\ \A p \in Positions :
                        (MaskAt(p) # Zero /\ RLe(v, InImage.data[p]))
                            => RLe(o, OutImage.data[p])

\* the default ranges, a foreground 10 mapped to 1 and a foreground value
\* strictly inside the clip range
C9_Witness ==
    /\ Called
    /\ self.clip_range = <<-5, 5>>
    /\ self.rescale_range = <<0, 1>>
    /\ \E q \in Positions :
         MaskAt(q) # Zero /\ InImage.data[q] = R(10) /\ OutImage.data[q] = R(1)
    /\ \E q \in Positions :
         /\ MaskAt(q) # Zero
         /\ RLt(R(clip_min), InImage.data[q])
         /\ RLt(InImage.data[q], R(clip_max))

\* C10: a call leaves every object that existed before it as it was (the
\* caller's image and mask among them), returns the caller's mask, leaves
\* the instance's ranges alone, and a repeated call on the same sample
\* returns an image equal to the one returned before.
C10_InputUnchanged ==
    [][calls' = calls + 1 =>
         /\ \A r \in 1..Len(heap) : heap'[r] = heap[r]
         /\ result' # NoSample =>
              /\ result'.image \notin {sample.image, sample.mask}
              /\ heap'[result'.mask] = heap[sample.mask]
              /\ result # NoSample => heap'[result'.image] = heap[result.image]
         /\ transforms' = transforms
         /\ sample' = sample]_vars

\* the sample was passed twice; it has a background position and a value
\* outside the clip range, which the call had to clip and to zero
C10_Witness ==
    /\ Called
    /\ calls >= 2
    /\ WellFormed
    /\ \E q \in Positions : MaskAt(q) = Zero
    /\ \E q \in Positions : RLt(R(clip_max), InImage.data[q])

====
